---- MODULE Spec2Model ----
(***************************************************************************)
(* Model of smashwilson/collaborative-fiction.                             *)
(*                                                                         *)
(*   - the Story / Snippet data model (NewStory, NewSnippet,               *)
(*     AppendSnippet, FinishStory) applied to the package-level `story`,   *)
(*   - two unsynchronised callers of AppendSnippet on the same Story,      *)
(*     at the granularity of Go's slice append (load header, write the     *)
(*     element, store header),                                             *)
(*   - start-up of the auth layer (securityKey, registerAuthRoutes) and    *)
(*     the OAuth callback handler (authCallbackHandler).                   *)
(*                                                                         *)
(* Go pointers are modelled as options: Nil is the nil pointer, Ptr(x) a   *)
(* pointer to x.                                                           *)
(***************************************************************************)
EXTENDS Integers, Sequences, FiniteSets, TLC

VARIABLES
    story,      \* main.go:30, the package-level *Story
    now,        \* the wall clock read by time.Now()
    log,        \* history: the snippets passed to AppendSnippet, in call order
    hdr,        \* race: the slice header stored in story.Snippets
    heap,       \* race: the backing arrays, indexed by pointer
    pc,         \* race: each caller's position inside AppendSnippet
    loc,        \* race: each caller's registers (header loaded, header to store)
    prior,      \* race: number of appends that completed before the callers began
    files,      \* auth: the secret files on disk
    mainPc,     \* auth: position of main / registerAuthRoutes
    keys,       \* auth: the keys registerAuthRoutes obtained so far
    calls,      \* auth: history of the securityKey calls of this start
    req,        \* auth: the latest callback request and what its provider answered
    resp        \* auth: the response written for that request

storyVars == <<story, now, log>>
raceVars  == <<hdr, heap, pc, loc, prior>>
authVars  == <<files, mainPc, keys, calls, req, resp>>
vars      == <<story, now, log, hdr, heap, pc, loc, prior,
               files, mainPc, keys, calls, req, resp>>

----------------------------------------------------------------------------
(* Bounds of the model *)

MaxClock == 3
MaxAppends == 2
MaxPrior == 3

(* Go values *)

Nil == <<>>
Ptr(x) == <<x>>
Deref(p) == p[1]

Authors == {"alice", "bob"}
Contents == {Nil, Ptr("text")}

\* The zero time.Time, which is what a zero-valued Snippet holds.
ZeroTime == 0
\* len of the slice NewStory makes.
InitialLen == 3

Last(s) == s[Len(s)]

----------------------------------------------------------------------------
(* part_000: Story and Snippet *)

\* The zero value of struct Snippet.
ZeroSnippet == [Author |-> "", Created |-> ZeroTime, Content |-> Nil]

\* make([]Snippet, n): n zero-valued elements.
MakeSnippets(n) == [i \in 1..n |-> ZeroSnippet]

NewStory(ts) ==
    Ptr([Snippets |-> MakeSnippets(InitialLen),
         Started  |-> Ptr(ts),
         Finished |-> Nil])

NewSnippet(author, content, ts) ==
    [Author |-> author, Created |-> ts, Content |-> content]

\* A variant that rebuilds the Story and leaves Finished out.
AppendSnippetDropsFinished(s, snippet) ==
    Ptr([Snippets |-> Append(Deref(s).Snippets, snippet),
         Started  |-> Deref(s).Started,
         Finished |-> Nil])

AppendSnippet(s, snippet) ==
    Ptr([Deref(s) EXCEPT !.Snippets = Append(@, snippet)])

FinishStory(s, ts) ==
    Ptr([Deref(s) EXCEPT !.Finished = Ptr(ts)])

IsFinished(s) == Deref(s).Finished # Nil

----------------------------------------------------------------------------
(* Turn Gate (spec section 4.2; the repository has no code for it) *)

None == Nil

visible_prompt(s) ==
    IF Len(Deref(s).Snippets) = 0 THEN None ELSE Ptr(Last(Deref(s).Snippets))

can_submit(s, requester) ==
    /\ ~IsFinished(s)
    /\ \/ Len(Deref(s).Snippets) = 0
       \/ Last(Deref(s).Snippets).Author # requester

\* appended: the snippets appended to s so far.
Status(s, appended) ==
    IF IsFinished(s) THEN "Finished"
    ELSE IF appended = <<>> THEN "Empty" ELSE "InProgress"

Rank(st) == CASE st = "Empty" -> 0 [] st = "InProgress" -> 1 [] st = "Finished" -> 2

----------------------------------------------------------------------------
(* Story operations as steps of the program *)

Tick ==
    /\ now < MaxClock
    /\ now' = now + 1
    /\ UNCHANGED <<story, log>>

NewStoryAct ==
    /\ story = Nil
    /\ story' = NewStory(now)
    /\ UNCHANGED <<now, log>>

AppendSnippetAct ==
    /\ story # Nil
    /\ Len(log) < MaxAppends
    /\ \E author \in Authors, content \in Contents :
          LET snippet == NewSnippet(author, content, now) IN
          /\ story' = AppendSnippet(story, snippet)
          /\ log' = Append(log, snippet)
    /\ UNCHANGED now

FinishStoryAct ==
    /\ story # Nil
    /\ story' = FinishStory(story, now)
    /\ UNCHANGED <<now, log>>

----------------------------------------------------------------------------
(* Two callers inside AppendSnippet at once.  part_000:43 is                *)
(*     story.Snippets = append(story.Snippets, snippet)                     *)
(* which loads the slice header, writes the element (into the backing array *)
(* when it has room, else into a larger copy of it) and stores the new      *)
(* header.  Nothing in the repository serialises these steps.  Each header  *)
(* load and store is taken as one step; a torn header would only add        *)
(* outcomes.                                                                *)

Callers == Authors

\* The snippet caller c appends.
CallerSnippet(c) == NewSnippet(c, Ptr("text"), now)

\* Capacity append grows a full slice of small capacity to.
GrowCap(cap) == IF cap = 0 THEN 1 ELSE 2 * cap

\* The element write of append(h, snippet) on heap hp: the heap after it and
\* the header append returns.
SliceAppend(h, hp, snippet) ==
    IF h.len < h.cap
    THEN [heap |-> [hp EXCEPT ![h.ptr][h.len + 1] = snippet],
          hdr  |-> [ptr |-> h.ptr, len |-> h.len + 1, cap |-> h.cap]]
    ELSE LET grown == [i \in 1..GrowCap(h.cap) |->
                          IF i <= h.len THEN hp[h.ptr][i]
                          ELSE IF i = h.len + 1 THEN snippet
                          ELSE ZeroSnippet]
         IN [heap |-> Append(hp, grown),
             hdr  |-> [ptr |-> Len(hp) + 1, len |-> h.len + 1,
                       cap |-> GrowCap(h.cap)]]

\* story.Snippets as a reader sees it.
View == [i \in 1..hdr.len |-> heap[hdr.ptr][i]]

NoHdr == [ptr |-> 0, len |-> 0, cap |-> 0]

\* An AppendSnippet that runs alone, before the two callers begin.
SeqAppend ==
    /\ \A c \in Callers : pc[c] = "idle"
    /\ prior < MaxPrior
    /\ LET r == SliceAppend(hdr, heap, NewSnippet("carol", Nil, now)) IN
          /\ heap' = r.heap
          /\ hdr' = r.hdr
    /\ prior' = prior + 1
    /\ UNCHANGED <<pc, loc>>

LoadHeader(c) ==
    /\ pc[c] = "idle"
    /\ loc' = [loc EXCEPT ![c].old = hdr]
    /\ pc' = [pc EXCEPT ![c] = "loaded"]
    /\ UNCHANGED <<hdr, heap, prior>>

WriteElement(c) ==
    /\ pc[c] = "loaded"
    /\ LET r == SliceAppend(loc[c].old, heap, CallerSnippet(c)) IN
          /\ heap' = r.heap
          /\ loc' = [loc EXCEPT ![c].new = r.hdr]
    /\ pc' = [pc EXCEPT ![c] = "written"]
    /\ UNCHANGED <<hdr, prior>>

StoreHeader(c) ==
    /\ pc[c] = "written"
    /\ hdr' = loc[c].new
    /\ pc' = [pc EXCEPT ![c] = "done"]
    /\ UNCHANGED <<heap, loc, prior>>

----------------------------------------------------------------------------
(* auth.go: securityKey, registerAuthRoutes, authCallbackHandler *)

NoErr == "nil"

\* A byte slice, by its length and an identity of its contents.
Bytes(n, id) == [n |-> n, id |-> id]
NilBytes == [n |-> 0, id |-> 0]

Absent      == [kind |-> "absent", data |-> NilBytes]
Unreadable  == [kind |-> "unreadable", data |-> NilBytes]
Present(b)  == [kind |-> "present", data |-> b]

\* The three secret files registerAuthRoutes asks for, in order.
KeyFiles == <<[name |-> ".provider.secret",    length |-> 64],
              [name |-> ".cookiehash.secret",  length |-> 64],
              [name |-> ".cookieblock.secret", length |-> 32]>>
FileNames == {KeyFiles[i].name : i \in 1..Len(KeyFiles)}
KeyLen(name) == KeyFiles[CHOOSE i \in 1..Len(KeyFiles) : KeyFiles[i].name = name].length
RandomIds == {1, 2}

\* os.Open
Open(fs, filename) ==
    CASE fs[filename].kind = "present"    -> [file |-> Ptr(filename), err |-> NoErr]
      [] fs[filename].kind = "absent"     -> [file |-> Nil, err |-> "ENOENT"]
      [] fs[filename].kind = "unreadable" -> [file |-> Nil, err |-> "EACCES"]

IsNotExist(err) == err = "ENOENT"

\* ioutil.ReadAll; on a nil *os.File, Read fails with os.ErrInvalid.
ReadAll(fs, file) ==
    IF file = Nil THEN [data |-> NilBytes, err |-> "EINVAL"]
    ELSE [data |-> fs[Deref(file)].data, err |-> NoErr]

\* ioutil.WriteFile
WriteFile(fs, filename, data, wok) ==
    IF wok THEN [fs |-> [fs EXCEPT ![filename] = Present(data)], err |-> NoErr]
    ELSE [fs |-> fs, err |-> "EIO"]

\* rnd: what GenerateRandomKey draws; wok: whether WriteFile can write.
securityKey(fs, filename, length, rnd, wok) ==
    LET o == Open(fs, filename) IN
    IF o.err # NoErr
    THEN LET r == ReadAll(fs, o.file) IN
         [key |-> r.data, err |-> r.err, fs |-> fs]
    ELSE IF IsNotExist(o.err)
    THEN LET secret == Bytes(length, rnd)
             w == WriteFile(fs, filename, secret, wok) IN
         IF w.err # NoErr
         THEN [key |-> NilBytes, err |-> w.err, fs |-> fs]
         ELSE [key |-> secret, err |-> NoErr, fs |-> w.fs]
    ELSE [key |-> NilBytes, err |-> o.err, fs |-> fs]

\* The record kept of one securityKey call.
CallRecord(fs, kf, r) ==
    [filename |-> kf.name, length |-> kf.length, pre |-> fs[kf.name],
     key |-> r.key, err |-> r.err, post |-> r.fs[kf.name]]

\* registerAuthRoutes up to securecookie.New: the three securityKey calls, the
\* first error returned at once.
RECURSIVE registerKeys(_, _, _, _, _, _)
registerKeys(i, fs, got, made, rnd, wok) ==
    IF i > Len(KeyFiles) THEN [err |-> NoErr, keys |-> got, fs |-> fs, calls |-> made]
    ELSE LET r == securityKey(fs, KeyFiles[i].name, KeyFiles[i].length, rnd[i], wok[i])
             c == CallRecord(fs, KeyFiles[i], r)
         IN IF r.err # NoErr
            THEN [err |-> r.err, keys |-> got, fs |-> r.fs, calls |-> Append(made, c)]
            ELSE registerKeys(i + 1, r.fs, Append(got, r.key), Append(made, c), rnd, wok)

registerAuthRoutes(fs, rnd, wok) == registerKeys(1, fs, <<>>, <<>>, rnd, wok)

\* The providers registerAuthRoutes hands to gomniauth.WithProviders.
Providers == {"google", "github"}
ProviderNames == Providers \cup {"twitter"}

NoCookie == Nil
StatusResponse(code) == [status |-> code, location |-> Nil, cookie |-> NoCookie]
RedirectResponse(to, cookie) == [status |-> 0, location |-> Ptr(to), cookie |-> cookie]

\* A variant that sets the cookie before it looks at Encode's error.
authCallbackHandlerCookieFirst(providerName, completeOk, userOk, encodeOk) ==
    IF providerName \notin Providers THEN StatusResponse(404)
    ELSE IF ~completeOk THEN StatusResponse(500)
    ELSE IF ~userOk THEN StatusResponse(500)
    ELSE LET cookie == Ptr([Name |-> "user", Value |-> "encoded",
                            Path |-> "config.Root"]) IN
         IF ~encodeOk THEN [StatusResponse(500) EXCEPT !.cookie = cookie]
         ELSE RedirectResponse("config.Root", cookie)

\* completeOk, userOk, encodeOk: whether provider.CompleteAuth, provider.GetUser
\* and cookieGen.Encode return no error (each is the library's to decide).
authCallbackHandler(providerName, completeOk, userOk, encodeOk) ==
    IF providerName \notin Providers THEN StatusResponse(404)
    ELSE IF ~completeOk THEN StatusResponse(500)
    ELSE IF ~userOk THEN StatusResponse(500)
    ELSE IF ~encodeOk THEN StatusResponse(500)
    ELSE RedirectResponse("config.Root",
                          Ptr([Name |-> "user", Value |-> "encoded",
                               Path |-> "config.Root"]))

NoReq == [provider |-> "", completeOk |-> FALSE, userOk |-> FALSE, encodeOk |-> FALSE]

\* main.go:107-111: main calls registerAuthRoutes and dies on its error.
RegisterAuthRoutesAct ==
    /\ mainPc = "start"
    /\ \E rnd \in [1..Len(KeyFiles) -> RandomIds], wok \in [1..Len(KeyFiles) -> BOOLEAN] :
          LET r == registerAuthRoutes(files, rnd, wok) IN
          /\ files' = r.fs
          /\ keys' = r.keys
          /\ calls' = r.calls
          /\ mainPc' = IF r.err # NoErr THEN "fatal" ELSE "serving"
    /\ UNCHANGED <<req, resp>>

\* The process is started again; the files stay.
Restart ==
    /\ mainPc \in {"fatal", "serving"}
    /\ mainPc' = "start"
    /\ keys' = <<>>
    /\ calls' = <<>>
    /\ req' = NoReq
    /\ resp' = Nil
    /\ UNCHANGED files

AuthCallbackAct ==
    /\ mainPc = "serving"
    /\ \E providerName \in ProviderNames, completeOk, userOk, encodeOk \in BOOLEAN :
          /\ req' = [provider |-> providerName, completeOk |-> completeOk,
                     userOk |-> userOk, encodeOk |-> encodeOk]
          /\ resp' = Ptr(authCallbackHandler(providerName, completeOk, userOk, encodeOk))
    /\ UNCHANGED <<files, mainPc, keys, calls>>

----------------------------------------------------------------------------
(* Specifications *)

StoryIdle == story = Nil /\ now = 1 /\ log = <<>>

RaceIdle ==
    /\ hdr = [ptr |-> 1, len |-> InitialLen, cap |-> InitialLen]
    /\ heap = <<MakeSnippets(InitialLen)>>
    /\ pc = [c \in Callers |-> "idle"]
    /\ loc = [c \in Callers |-> [old |-> NoHdr, new |-> NoHdr]]
    /\ prior = 0

AuthIdle(fs) ==
    /\ files = fs
    /\ mainPc = "start"
    /\ keys = <<>>
    /\ calls = <<>>
    /\ req = NoReq
    /\ resp = Nil

NoFiles == [f \in FileNames |-> Absent]

\* The story operations, one at a time.
Init == StoryIdle /\ RaceIdle /\ AuthIdle(NoFiles)

Next ==
    \/ Tick /\ UNCHANGED raceVars /\ UNCHANGED authVars
    \/ NewStoryAct /\ UNCHANGED raceVars /\ UNCHANGED authVars
    \/ AppendSnippetAct /\ UNCHANGED raceVars /\ UNCHANGED authVars
    \/ FinishStoryAct /\ UNCHANGED raceVars /\ UNCHANGED authVars

Spec == Init /\ [][Next]_vars

\* Two callers of AppendSnippet on one story, which NewStory made at time 1.
InitRace ==
    /\ story = NewStory(1) /\ now = 1 /\ log = <<>>
    /\ RaceIdle
    /\ AuthIdle(NoFiles)

NextRace ==
    \/ SeqAppend /\ UNCHANGED storyVars /\ UNCHANGED authVars
    \/ \E c \in Callers : LoadHeader(c) /\ UNCHANGED storyVars /\ UNCHANGED authVars
    \/ \E c \in Callers : WriteElement(c) /\ UNCHANGED storyVars /\ UNCHANGED authVars
    \/ \E c \in Callers : StoreHeader(c) /\ UNCHANGED storyVars /\ UNCHANGED authVars

SpecRace == InitRace /\ [][NextRace]_vars

\* Start-up and the callback handler, from every state of the secret files.
FileStates(f) == {Absent, Unreadable} \cup {Present(Bytes(KeyLen(f), id)) : id \in RandomIds}

InitAuth ==
    /\ StoryIdle
    /\ RaceIdle
    /\ \E fs \in [FileNames -> UNION {FileStates(f) : f \in FileNames}] :
          /\ \A f \in FileNames : fs[f] \in FileStates(f)
          /\ AuthIdle(fs)

NextAuth ==
    \/ RegisterAuthRoutesAct /\ UNCHANGED storyVars /\ UNCHANGED raceVars
    \/ Restart /\ UNCHANGED storyVars /\ UNCHANGED raceVars
    \/ AuthCallbackAct /\ UNCHANGED storyVars /\ UNCHANGED raceVars

SpecAuth == InitAuth /\ [][NextAuth]_vars

----------------------------------------------------------------------------
(* Claims *)

Snippets(s) == Deref(s).Snippets

\* C1: an AppendSnippet call made once the story is finished leaves the
\* story's snippet sequence exactly as it was.
AppendAfterFinishRejected ==
    [][(story # Nil /\ IsFinished(story) /\ log' # log)
          => Snippets(story') = Snippets(story)]_vars

\* C2: Finished is written exactly once: once it is set, every later step
\* (a later FinishStory included) leaves it at the value of the first call.
FinishedWrittenOnce ==
    [][(story # Nil /\ IsFinished(story))
          => Deref(story').Finished = Deref(story).Finished]_vars

\* C3: the length of the snippet sequence never decreases, and in a state where
\* Finished is set the next state has the same snippet sequence.
SnippetsGrowOnlyWhileUnfinished ==
    [][story # Nil
          => /\ Len(Snippets(story')) >= Len(Snippets(story))
             /\ IsFinished(story) => Snippets(story') = Snippets(story)]_vars

\* C4: NewStory returns a story with an empty snippet sequence, Started set
\* and Finished absent, so that the first appended snippet is at position 0
\* (the first element of the sequence).
NewStoryIsEmpty ==
    [][/\ (story = Nil /\ story' # Nil)
            => /\ Len(Snippets(story')) = 0
               /\ Deref(story').Started # Nil
               /\ Deref(story').Finished = Nil
       /\ (log = <<>> /\ log' # <<>>)
            => Snippets(story')[1] = log'[1]]_vars

\* C5: when both concurrent callers have returned, the sequence is longer by
\* exactly 2 and holds both snippets, at two distinct positions.
AllDone == \A c \in Callers : pc[c] = "done"

ConcurrentAppendsBothLand ==
    AllDone =>
        /\ hdr.len = InitialLen + prior + Cardinality(Callers)
        /\ \A c \in Callers : \E i \in 1..hdr.len : View[i] = CallerSnippet(c)
        /\ \A c, d \in Callers : c # d => loc[c].new.len # loc[d].new.len

\* C6: on an unfinished story visible_prompt is the most recently appended
\* snippet, and None while nothing has been appended.
VisiblePromptIsLastAppended ==
    (story # Nil /\ ~IsFinished(story))
        => visible_prompt(story) = IF log = <<>> THEN None ELSE Ptr(Last(log))

\* C7: an append is accepted only when can_submit holds for its author, so no
\* two snippets appended one after the other have the same author.
NoImmediateRepeat ==
    [][log' # log
          => /\ can_submit(story, Last(log').Author)
             /\ \A i \in 1..(Len(log') - 1) : log'[i].Author # log'[i + 1].Author]_vars

\* C8: the status never moves backwards along Empty -> InProgress -> Finished:
\* Finished stays set, a story with an appended snippet is never Empty again,
\* and an append made on an Empty or InProgress story is taken.
StatusNeverMovesBack ==
    [][story # Nil
          => /\ Rank(Status(story', log')) >= Rank(Status(story, log))
             /\ IsFinished(story) => IsFinished(story')
             /\ Status(story, log) # "Empty" => Status(story', log') # "Empty"
             /\ (log' # log /\ Status(story, log) \in {"Empty", "InProgress"})
                   => Snippets(story') = Append(Snippets(story), Last(log'))]_vars

\* C8's case: a story that was appended to and then finished.
FinishedAfterAppends ==
    story # Nil /\ IsFinished(story) /\ Len(log) >= 1

\* C9: the callback sets the "user" cookie and redirects to the root exactly
\* when provider lookup, CompleteAuth, GetUser and Encode all succeeded;
\* otherwise it answers 404 (unknown provider) or 500 and sets no cookie.
AllStepsOk ==
    req.provider \in Providers /\ req.completeOk /\ req.userOk /\ req.encodeOk

CookieOnlyAfterAllSteps ==
    resp # Nil =>
        LET r == Deref(resp) IN
        /\ AllStepsOk => /\ r.cookie # NoCookie
                         /\ Deref(r.cookie).Name = "user"
                         /\ r.location = Ptr("config.Root")
        /\ ~AllStepsOk => /\ r.cookie = NoCookie
                          /\ r.location = Nil
                          /\ r.status = IF req.provider \in Providers THEN 500 ELSE 404

\* C9's case: a callback whose four steps succeeded and that set the cookie.
CookieSetAfterAllSteps ==
    resp # Nil /\ AllStepsOk /\ Deref(resp).cookie # NoCookie

\* C10: securityKey returns the bytes of a file that exists, generates, writes
\* and returns a key of the requested length for one that does not, and
\* returns an error and no key on any other open error; so registerAuthRoutes
\* fails only when a secret file cannot be opened or written.
SecurityKeyStable ==
    /\ \A i \in 1..Len(calls) :
          LET c == calls[i] IN
          /\ c.pre.kind = "present" => (c.err = NoErr /\ c.key = c.pre.data)
          /\ c.pre.kind = "absent" =>
                \/ c.err = NoErr /\ c.key.n = c.length /\ c.post = Present(c.key)
                \/ c.err = "EIO" /\ c.key = NilBytes
          /\ c.pre.kind = "unreadable" => (c.err # NoErr /\ c.key = NilBytes)
    /\ mainPc = "fatal" => \E i \in 1..Len(calls) : calls[i].err \in {"EACCES", "EIO"}

====
